---- MODULE Spec2Model ----
(***************************************************************************)
(* State machine of CapaExplorerForm (capa/ida/plugin/form.py): the form   *)
(* that binds the capa result document to the IDA tree / summary / ATT&CK  *)
(* views, the "limit results to current function" filter, the rename and   *)
(* navigation hooks and the File menu actions.                             *)
(*                                                                         *)
(* Conventions                                                             *)
(*   - Python's None is the empty sequence <<>>, a present value x is <<x>>*)
(*     (self.doc, the proxy's address range, the func_t of get_func).      *)
(*   - A Python string that the code takes apart (an "att&ck" entry) is a  *)
(*     sequence of tokens: words and the separators "::" and " ".          *)
(*   - Every handler is one action; `last` records what the handler did    *)
(*     towards the host and the engine (dialogs shown, messages, engine    *)
(*     run, file written), which is not part of the form's own fields.     *)
(***************************************************************************)
EXTENDS Integers, Sequences, FiniteSets, TLC

\* ------------------------------------------------------------------ bounds
\* Highest address of the analysed database.
MaxEA == 3

Addresses == 0..MaxEA

\* ------------------------------------------------------------ host (IDA)
\* The functions of the database, as idaapi.get_func reports them
\* (func_t.start_ea inclusive, func_t.end_ea exclusive).  A function at
\* address 0 exists in a raw binary / shellcode blob loaded at base 0.
Functions ==
    { [start_ea |-> 0, end_ea |-> 2], [start_ea |-> 3, end_ea |-> 4] }

\* idaapi.get_func(ea): the function containing ea, or None.
get_func(ea) ==
    LET fs == { f \in Functions : f.start_ea <= ea /\ ea < f.end_ea }
    IN  IF fs = {} THEN <<>> ELSE << CHOOSE f \in fs : TRUE >>

\* capa.ida.helpers.is_func_start(ea)
is_func_start(ea) ==
    /\ get_func(ea) # <<>>
    /\ get_func(ea)[1].start_ea = ea

FuncStarts == { f.start_ea : f \in Functions }

\* The names a function may carry in the database.
NamesOf(start) == IF start = 0 THEN {"start", "sub_0"} ELSE {"decode", "sub_3"}

\* The widget a navigation event comes from: the disassembly view
\* (idaapi.BWN_DISASM) or any other one.
BWN_DISASM == "BWN_DISASM"
WidgetTypes == {BWN_DISASM, "BWN_OTHER"}

\* The directories the user can pick in the directory dialog; "" is a
\* cancelled dialog.
Dirs == {"rulesA", "rulesB"}

\* The path the user can pick in the export dialog; "" is a cancelled dialog.
Paths == {"out.json"}

\* ------------------------------------------------------- result documents
\* The capability rules the engine can report.  `matches` are the match
\* addresses, `attack` the rule's "att&ck" meta entries (token sequences).
RuleCreate ==
    [ name |-> "create process", namespace |-> "host-interaction/process",
      matches |-> {1}, attack |-> <<>> ]
RuleEncode ==
    [ name |-> "encode data", namespace |-> "data-manipulation/encoding",
      matches |-> {0, 3},
      attack |-> << <<"Execution", "::", "Shared", " ", "Modules", " ", "T1129">>,
                    <<"Execution", "::", "API", " ", "T1106">> >> ]
RulePersist ==
    [ name |-> "persist", namespace |-> "persistence/registry",
      matches |-> {3},
      attack |-> << <<"Persistence", "::", "Boot", " ", "Autostart", "::",
                      "Registry", " ", "Keys", " ", "T1547.001">> >> ]

\* capa.main.find_capabilities with the rules of directory `path`, as the
\* capability rules rutils.capability_rules yields for its result: the engine
\* is a function of the rule set and the database.
find_capabilities(path) ==
    IF path = "rulesA" THEN <<RuleCreate>> ELSE <<RuleEncode, RulePersist>>

\* capa.render.convert_capabilities_to_result_document(meta, rules, capabilities)
convert_capabilities_to_result_document(path, rules) ==
    [ meta |-> [rule_path |-> path], rules |-> rules ]

\* rutils.capability_rules(doc)
capability_rules(d) == IF d = <<>> THEN <<>> ELSE d[1].rules

\* ------------------------------------------------------- Python strings
\* The tokens of the strings above in Python's str order.
Lexicon ==
    << " ", "::", "API", "Autostart", "Boot", "EXECUTION", "Execution", "Keys",
       "Modules", "PERSISTENCE", "Persistence", "Registry", "Shared", "T1106",
       "T1129", "T1547.001" >>

Rank(tok) == CHOOSE i \in DOMAIN Lexicon : Lexicon[i] = tok

Min(a, b) == IF a <= b THEN a ELSE b

\* str < str
StrLess(a, b) ==
    \E i \in 1..(Min(Len(a), Len(b)) + 1) :
        /\ \A j \in 1..(i - 1) : a[j] = b[j]
        /\ IF i <= Len(a) /\ i <= Len(b)
              THEN Rank(a[i]) < Rank(b[i])
              ELSE i > Len(a) /\ i <= Len(b)

\* tuple of str < tuple of str
TupleLess(a, b) ==
    \E i \in 1..(Min(Len(a), Len(b)) + 1) :
        /\ \A j \in 1..(i - 1) : a[j] = b[j]
        /\ IF i <= Len(a) /\ i <= Len(b)
              THEN StrLess(a[i], b[i])
              ELSE i > Len(a) /\ i <= Len(b)

\* sorted(set of str)
RECURSIVE SortStrs(_)
SortStrs(S) ==
    IF S = {} THEN <<>>
    ELSE LET m == CHOOSE x \in S : \A y \in S \ {x} : StrLess(x, y)
         IN  <<m>> \o SortStrs(S \ {m})

\* sorted(set of tuples)
RECURSIVE SortTuples(_)
SortTuples(S) ==
    IF S = {} THEN <<>>
    ELSE LET m == CHOOSE x \in S : \A y \in S \ {x} : TupleLess(x, y)
         IN  <<m>> \o SortTuples(S \ {m})

\* sorted(set of int)
RECURSIVE SortInts(_)
SortInts(S) ==
    IF S = {} THEN <<>>
    ELSE LET m == CHOOSE x \in S : \A y \in S : x <= y
         IN  <<m>> \o SortInts(S \ {m})

\* sep in s
Contains(s, sep) == \E i \in DOMAIN s : s[i] = sep

\* s.partition(sep): (head, sep, tail) at the first sep, (s, "", "") without
partition(s, sep) ==
    IF Contains(s, sep)
    THEN LET i == CHOOSE k \in DOMAIN s :
                      s[k] = sep /\ \A j \in 1..(k - 1) : s[j] # sep
         IN  << SubSeq(s, 1, i - 1), <<sep>>, SubSeq(s, i + 1, Len(s)) >>
    ELSE << s, <<>>, <<>> >>

\* s.rpartition(sep): (head, sep, tail) at the last sep, ("", "", s) without
rpartition(s, sep) ==
    IF Contains(s, sep)
    THEN LET i == CHOOSE k \in DOMAIN s :
                      s[k] = sep /\ \A j \in (k + 1)..Len(s) : s[j] # sep
         IN  << SubSeq(s, 1, i - 1), <<sep>>, SubSeq(s, i + 1, Len(s)) >>
    ELSE << <<>>, <<>>, s >>

\* str.upper() on the tokens of a tactic
UpperTok(tok) ==
    CASE tok = "Execution" -> "EXECUTION"
      [] tok = "Persistence" -> "PERSISTENCE"
      [] OTHER -> tok

upper(s) == [i \in DOMAIN s |-> UpperTok(s[i])]

\* ------------------------------------------------------------ Qt tables
\* A QTableWidget with two columns: a sequence of rows, a row a pair of
\* cells, a cell without an item <<>>.
EmptyRow == << <<>>, <<>> >>

\* QTableWidget.setRowCount(n): rows beyond n are dropped, new rows are empty
setRowCount(t, n) == [i \in 1..n |-> IF i <= Len(t) THEN t[i] ELSE EmptyRow]

\* QTableWidget.setItem(row, column, item), row and column counted from 0;
\* an item outside the table's rows is not stored
setItem(t, row, col, item) ==
    IF row + 1 <= Len(t) THEN [t EXCEPT ![row + 1][col + 1] = item] ELSE t

\* ----------------------------------------------------- summary rendering
\* "%s (%d matches)" % (name, count), or the bare name for a single match
Capability(rule) ==
    LET count == Cardinality(rule.matches)
    IN  IF count = 1 THEN <<rule.name>> ELSE <<rule.name, count, "matches">>

\* The loop of render_capa_doc_summary from row `row` on.
RECURSIVE SummaryLoop(_, _, _)
SummaryLoop(t, rules, row) ==
    IF row >= Len(rules) THEN t
    ELSE LET rule == rules[row + 1]
             t1 == setRowCount(t, row + 1)
             t2 == setItem(t1, row, 0, Capability(rule))
             t3 == setItem(t2, row, 1, <<rule.namespace>>)
         IN  SummaryLoop(t3, rules, row + 1)

\* render_capa_doc_summary: the summary table after rendering document d
render_capa_doc_summary(t, d) == SummaryLoop(t, capability_rules(d), 0)

\* ------------------------------------------------------ ATT&CK rendering
\* One "att&ck" entry taken apart: its tactic and its technique spec,
\* (technique, id) or (technique, subtechnique, id).
ParseAttack(attack) ==
    LET p == partition(attack, "::")
        tactic == p[1]
        rest == p[3]
    IN  IF Contains(rest, "::")
        THEN LET q == partition(rest, "::")
                 r == rpartition(q[3], " ")
             IN  [tactic |-> tactic, spec |-> << q[1], r[1], r[3] >>]
        ELSE LET r == rpartition(rest, " ")
             IN  [tactic |-> tactic, spec |-> << r[1], r[3] >>]

\* Every parsed "att&ck" entry of the document's capability rules.
AttackEntries(d) ==
    LET rules == capability_rules(d)
    IN  { ParseAttack(rules[i].attack[k]) :
            <<i, k>> \in { <<i, k>> \in (DOMAIN rules) \X (1..3) :
                              k \in DOMAIN rules[i].attack } }

\* tactics: tactic -> set of technique specs
Tactics(d) ==
    [ tactic \in { e.tactic : e \in AttackEntries(d) } |->
        { e.spec : e \in { x \in AttackEntries(d) : x.tactic = tactic } } ]

\* "%s %s" % (technique, id)  /  "%s::%s %s" % (technique, subtechnique, id)
FormatSpec(spec) ==
    IF Len(spec) = 2
    THEN spec[1] \o <<" ">> \o spec[2]
    ELSE spec[1] \o <<"::">> \o spec[2] \o <<" ">> \o spec[3]

RECURSIVE Blanks(_)
Blanks(n) == IF n <= 0 THEN <<>> ELSE << <<>> >> \o Blanks(n - 1)

RECURSIVE FormatSpecs(_)
FormatSpecs(specs) ==
    IF specs = <<>> THEN <<>>
    ELSE <<FormatSpec(Head(specs))>> \o FormatSpecs(Tail(specs))

\* column_one and column_two over the sorted tactics `ts`
RECURSIVE ColumnOne(_, _)
ColumnOne(tactics, ts) ==
    IF ts = <<>> THEN <<>>
    ELSE <<upper(Head(ts))>> \o Blanks(Cardinality(tactics[Head(ts)]) - 1)
            \o ColumnOne(tactics, Tail(ts))

RECURSIVE ColumnTwo(_, _)
ColumnTwo(tactics, ts) ==
    IF ts = <<>> THEN <<>>
    ELSE FormatSpecs(SortTuples(tactics[Head(ts)])) \o ColumnTwo(tactics, Tail(ts))

RECURSIVE SetColumn(_, _, _, _)
SetColumn(t, col, values, row) ==
    IF row >= Len(values) THEN t
    ELSE SetColumn(setItem(t, row, col, values[row + 1]), col, values, row + 1)

Max(a, b) == IF a >= b THEN a ELSE b

\* render_capa_doc_mitre_summary: the ATT&CK table after rendering document d
render_capa_doc_mitre_summary(t, d) ==
    LET tactics == Tactics(d)
        ts == SortStrs(DOMAIN tactics)
        column_one == ColumnOne(tactics, ts)
        column_two == ColumnTwo(tactics, ts)
        t1 == setRowCount(t, Max(Len(column_one), Len(column_two)))
        t2 == SetColumn(t1, 0, column_one, 0)
    IN  SetColumn(t2, 1, column_two, 0)

\* ------------------------------------------------------------------ state
VARIABLES
    phase,          \* "new" (constructed), "open" (after OnCreate), "closed"
    rule_path,      \* self.rule_path
    doc,            \* self.doc
    checked,        \* view_limit_results_by_function.isChecked()
    filter,         \* model_proxy's address range: <<>> or <<min_ea, max_ea>>
    sort,           \* view_tree's sort column and order
    tree,           \* model_data's rows
    view_summary,   \* the summary table
    view_attack,    \* the MITRE ATT&CK table
    screen_ea,      \* idaapi.get_screen_ea()
    names,          \* idaapi.get_name of every function start
    hook_meta,      \* ida_hooks' metadata cache: <<>> or <<prev_name>>
    hook_pending,   \* a hooked action is between its pre and its post call
    files,          \* the file system: path -> <<>> or <<content>>
    completed,      \* the document of the latest analysis that ran to the end
    last            \* what the latest handler did

vars ==
    << phase, rule_path, doc, checked, filter, sort, tree, view_summary,
       view_attack, screen_ea, names, hook_meta, hook_pending, files,
       completed, last >>

\* CapaExplorerDataModel.COLUMN_INDEX_RULE_INFORMATION and the other columns
COLUMN_INDEX_RULE_INFORMATION == "rule_information"
\* The sort a click on a column header leaves the tree in.
HeaderSorts == { [column |-> "address", order |-> "DescendingOrder"] }

\* The sort state of a tree view nobody has sorted yet.
UnsortedView == [column |-> "none", order |-> "none"]

\* What a handler did besides changing the form: `asked` the rules-directory
\* dialog of load_capa_results was shown, `engine` find_capabilities ran,
\* `produced` the document the analysis produced, `msgs` the messages
\* shown, `wrote` the file written, `reloaded` reload ran, `updated` the arguments of model_data.update_function_name, `input`
\* the user's answers the handler read.
Quiet ==
    [ op |-> "none", asked |-> FALSE, engine |-> FALSE, produced |-> <<>>,
      msgs |-> {},
      wrote |-> <<>>, reloaded |-> FALSE, updated |-> <<>>, input |-> <<>> ]

\* The form's fields as one value, for handlers that call one another.
Self ==
    [ rule_path |-> rule_path, doc |-> doc, checked |-> checked,
      filter |-> filter, sort |-> sort, tree |-> tree,
      view_summary |-> view_summary, view_attack |-> view_attack,
      log |-> Quiet ]

\* The handler named `op` returns leaving the form as `s`.
Commit(s, op) ==
    /\ rule_path' = s.rule_path
    /\ doc' = s.doc
    /\ checked' = s.checked
    /\ filter' = s.filter
    /\ sort' = s.sort
    /\ tree' = s.tree
    /\ view_summary' = s.view_summary
    /\ view_attack' = s.view_attack
    /\ completed' = IF s.log.produced # <<>> THEN s.log.produced ELSE completed
    /\ last' = [s.log EXCEPT !.op = op]

\* --------------------------------------------------------- model / proxy
\* CapaExplorerSortFilterProxyModel.add_address_range_filter(min_ea, max_ea)
add_address_range_filter(s, min_ea, max_ea) ==
    [s EXCEPT !.filter = <<min_ea, max_ea>>]

\* CapaExplorerSortFilterProxyModel.reset_address_range_filter()
reset_address_range_filter(s) == [s EXCEPT !.filter = <<>>]

\* CapaExplorerSortFilterProxyModel.filterAcceptsRow for a row at address ea
filterAcceptsRow(f, ea) == f = <<>> \/ (f[1] <= ea /\ ea < f[2])

\* The rows of the tree the proxy lets through.
Displayed == SelectSeq(tree, LAMBDA row : filterAcceptsRow(filter, row.ea))

\* The rows CapaExplorerDataModel.render_capa_doc adds for one rule: one per
\* match, with the name of the function that holds the match.
RuleRows(rule) ==
    LET eas == SortInts(rule.matches)
    IN  [ i \in DOMAIN eas |->
            [ rule |-> rule.name, ea |-> eas[i],
              func |-> IF get_func(eas[i]) = <<>> THEN ""
                       ELSE names[get_func(eas[i])[1].start_ea] ] ]

RECURSIVE DocRows(_)
DocRows(rules) ==
    IF rules = <<>> THEN <<>> ELSE RuleRows(Head(rules)) \o DocRows(Tail(rules))

\* CapaExplorerDataModel.render_capa_doc(doc)
render_capa_doc(s, d) == [s EXCEPT !.tree = @ \o DocRows(capability_rules(d))]

\* CapaExplorerDataModel.clear()
clear(s) == [s EXCEPT !.tree = <<>>]

\* CapaExplorerDataModel.update_function_name(old_name, new_name)
update_function_name(t, old_name, new_name) ==
    [ i \in DOMAIN t |->
        IF t[i].func = old_name THEN [t[i] EXCEPT !.func = new_name] ELSE t[i] ]

\* --------------------------------------------------------------- handlers
\* The messages shown to the user (inform_user_ida_ui, idaapi.info).
MsgSelectRules == <<"You must select a rules directory to use for analysis.">>
MsgRulesFailed(path) == <<"Failed to load rules from", path>>
MsgReloaded == <<"reload completed.">>
MsgResetDone == <<"reset completed.">>
MsgNoResults == <<"No capa results to export.">>

Inform(s, msg) == [s EXCEPT !.log.msgs = @ \cup {msg}]

\* The handler read `answer` from a dialog (or an argument from the host).
Read(s, answer) == [s EXCEPT !.log.input = Append(@, answer)]

\* set_view_tree_default_sort_order
set_view_tree_default_sort_order(s) ==
    [s EXCEPT !.sort = [column |-> COLUMN_INDEX_RULE_INFORMATION,
                        order |-> "AscendingOrder"]]

\* Faulty variant: outside any function the filter is cleared instead of set to the
\* sentinel range.
limit_results_to_function_Clears(s, f) ==
    IF f # <<>>
    THEN add_address_range_filter(s, f[1].start_ea, f[1].end_ea)
    ELSE reset_address_range_filter(s)

\* limit_results_to_function(f), f a func_t or None
limit_results_to_function(s, f) ==
    IF f # <<>>
    THEN add_address_range_filter(s, f[1].start_ea, f[1].end_ea)
    ELSE add_address_range_filter(s, -1, -1)

\* Faulty variant: unchecking the box leaves the filter in place.
slot_checkbox_limit_by_changed_KeepsFilter(s, state) ==
    IF state
    THEN limit_results_to_function(s, get_func(screen_ea))
    ELSE s

\* slot_checkbox_limit_by_changed(state), state the checkbox's new state
slot_checkbox_limit_by_changed(s, state) ==
    IF state
    THEN limit_results_to_function(s, get_func(screen_ea))
    ELSE reset_address_range_filter(s)

\* QCheckBox.setChecked(b): stateChanged reaches the slot only on a change
setChecked(s, b) ==
    IF s.checked = b THEN s
    ELSE slot_checkbox_limit_by_changed([s EXCEPT !.checked = b], b)

\* Faulty variant: the checkbox is left as it is.
ida_reset_KeepsCheckbox(s) == set_view_tree_default_sort_order(s)

\* ida_reset
ida_reset(s) == set_view_tree_default_sort_order(setChecked(s, FALSE))

\* Faulty variant: the failure path also drops the stored document.
rules_failed_ClearsDoc(s) ==
    [Inform(s, MsgRulesFailed(s.rule_path)) EXCEPT !.rule_path = "", !.doc = <<>>]

\* Faulty variant: the failure path keeps rule_path.
rules_failed_KeepsPath(s) == Inform(s, MsgRulesFailed(s.rule_path))

\* load_capa_results' except branch: the rules did not load
rules_failed(s) ==
    [Inform(s, MsgRulesFailed(s.rule_path)) EXCEPT !.rule_path = ""]

\* load_capa_results once the rules are loaded: run the engine, store the
\* document, render the views.  The warnings of a binary file or a file
\* limitation are messages only and are left out.
analysis_done(s) ==
    LET capabilities == find_capabilities(s.rule_path)
        d == << convert_capabilities_to_result_document(s.rule_path, capabilities) >>
        s1 == [s EXCEPT !.log.engine = TRUE, !.log.produced = d]
        s2 == [s1 EXCEPT !.doc = d]
        s3 == render_capa_doc(s2, s2.doc)
        s4 == [s3 EXCEPT !.view_summary = render_capa_doc_summary(@, s2.doc),
                         !.view_attack = render_capa_doc_mitre_summary(@, s2.doc)]
    IN  set_view_tree_default_sort_order(s4)

\* load_capa_results from the loading of the rules on (rule_path is set).
\* env.ok: capa.main.get_rules and capa.rules.RuleSet succeed.
run_analysis(s, env) == IF ~env.ok THEN rules_failed(s) ELSE analysis_done(s)

\* Faulty variant: the directory dialog is shown whatever rule_path holds.
load_capa_results_AlwaysAsks(s, env) ==
    LET asked == [Read(s, env.dir) EXCEPT !.log.asked = TRUE]
    IN  IF env.dir = ""
        THEN Inform(asked, MsgSelectRules)
        ELSE run_analysis([asked EXCEPT !.rule_path = env.dir], env)

\* load_capa_results.  env.dir: the user's answer to the directory dialog.
load_capa_results(s, env) ==
    IF s.rule_path = ""
    THEN LET asked == [Read(s, env.dir) EXCEPT !.log.asked = TRUE]
         IN  IF env.dir = ""
             THEN Inform(asked, MsgSelectRules)
             ELSE run_analysis([asked EXCEPT !.rule_path = env.dir], env)
    ELSE run_analysis(s, env)

\* reload
reload(s, env) ==
    LET s1 == ida_reset(s)
        s2 == clear(s1)
        s3 == [s2 EXCEPT !.view_summary = setRowCount(@, 0)]
        s4 == load_capa_results(s3, env)
    IN  Inform([s4 EXCEPT !.log.reloaded = TRUE], MsgReloaded)

\* Faulty variant: reset also forgets the rules directory.
reset_ClearsRulePath(s) ==
    Inform([ida_reset(s) EXCEPT !.rule_path = ""], MsgResetDone)

\* reset
reset(s) == Inform(ida_reset(s), MsgResetDone)

\* Faulty variant: the analysis is re-run whatever the answer.
change_rules_dir_AlwaysReloads(s, dir, yes, env) ==
    IF dir = "" THEN Read(s, dir)
    ELSE reload([Read(Read(s, dir), yes) EXCEPT !.rule_path = dir], env)

\* change_rules_dir.  dir: the directory dialog's answer; yes: the answer to
\* "Run analysis now?".
change_rules_dir(s, dir, yes, env) ==
    IF dir = "" THEN Read(s, dir)
    ELSE LET s1 == [Read(Read(s, dir), yes) EXCEPT !.rule_path = dir]
         IN  IF yes = "yes" THEN reload(s1, env) ELSE s1

\* Faulty variant: an existing file is overwritten whatever the answer.
export_json_IgnoresAnswer(s, path, overwrite) ==
    IF s.doc = <<>> THEN Inform(s, MsgNoResults)
    ELSE IF path = "" THEN Read(s, path)
    ELSE IF files[path] = <<>> THEN [Read(s, path) EXCEPT !.log.wrote = <<path>>]
    ELSE [Read(Read(s, path), overwrite) EXCEPT !.log.wrote = <<path>>]

\* export_json.  path: the file dialog's answer; overwrite: the answer to
\* "File already exists. Overwrite?".
export_json(s, path, overwrite) ==
    IF s.doc = <<>> THEN Inform(s, MsgNoResults)
    ELSE IF path = "" THEN Read(s, path)
    ELSE IF files[path] = <<>> THEN [Read(s, path) EXCEPT !.log.wrote = <<path>>]
    ELSE IF overwrite # "yes" THEN Read(Read(s, path), overwrite)
    ELSE [Read(Read(s, path), overwrite) EXCEPT !.log.wrote = <<path>>]

\* json.dumps(self.doc, sort_keys=True, ...).encode("utf-8")
json_dumps(d) == <<"json", d>>

\* What the environment decides during one analysis attempt.
Envs == [ dir : Dirs \cup {""}, ok : BOOLEAN ]

\* The same when rule_path is set, so that the directory dialog is not shown.
EnvsNoDialog == { env \in Envs : env.dir = "" }

YesNo == {"yes", "no"}

\* load_interface: fresh models and widgets
load_interface(s) ==
    [s EXCEPT !.checked = FALSE, !.filter = <<>>, !.sort = UnsortedView,
              !.tree = <<>>, !.view_summary = <<>>, !.view_attack = <<>>]

\* Faulty variant: events of every widget are acted on.
ida_hook_screen_ea_changed_AnyWidget(s, widget, new_ea, old_ea) ==
    IF ~s.checked THEN s
    ELSE IF get_func(new_ea) = get_func(old_ea) THEN s
    ELSE limit_results_to_function(s, get_func(new_ea))

\* Faulty variant: the state of the checkbox is not looked at.
ida_hook_screen_ea_changed_NoCheckbox(s, widget, new_ea, old_ea) ==
    IF widget # BWN_DISASM THEN s
    ELSE IF get_func(new_ea) = get_func(old_ea) THEN s
    ELSE limit_results_to_function(s, get_func(new_ea))

\* Faulty variant: the filter is taken from the source address.
ida_hook_screen_ea_changed_Old(s, widget, new_ea, old_ea) ==
    IF ~s.checked THEN s
    ELSE IF widget # BWN_DISASM THEN s
    ELSE IF get_func(new_ea) = get_func(old_ea) THEN s
    ELSE limit_results_to_function(s, get_func(old_ea))

\* ida_hook_screen_ea_changed(widget, new_ea, old_ea)
ida_hook_screen_ea_changed(s, widget, new_ea, old_ea) ==
    IF ~s.checked THEN s
    ELSE IF widget # BWN_DISASM THEN s
    ELSE IF get_func(new_ea) = get_func(old_ea) THEN s
    ELSE limit_results_to_function(s, get_func(new_ea))

\* ida_hook_rename(meta, post) with the screen at `location` and the database
\* names `nm`; h holds the metadata cache, the tree and the update made.
ida_hook_rename(h, post, location, nm) ==
    IF location = 0 \/ ~is_func_start(location) THEN h
    ELSE LET curr_name == nm[location]
         IN  IF post
             THEN LET prev_name == IF h.meta = <<>> THEN "" ELSE h.meta[1]
                  IN  [h EXCEPT !.tree = update_function_name(@, prev_name, curr_name),
                                !.updated = <<prev_name, curr_name>>]
             ELSE [h EXCEPT !.meta = <<curr_name>>]

\* ----------------------------------------------------------------- actions
Init ==
    /\ phase = "new"
    /\ rule_path = ""
    /\ doc = <<>>
    /\ checked = FALSE
    /\ filter = <<>>
    /\ sort = UnsortedView
    /\ tree = <<>>
    /\ view_summary = <<>>
    /\ view_attack = <<>>
    /\ screen_ea \in Addresses
    /\ names \in { nm \in [FuncStarts -> UNION { NamesOf(f) : f \in FuncStarts }] :
                     \A f \in FuncStarts : nm[f] \in NamesOf(f) }
    /\ hook_meta = <<>>
    /\ hook_pending = FALSE
    /\ files = [p \in Paths |-> <<>>]
    /\ completed = <<>>
    /\ last = Quiet

Ready == phase = "open" /\ ~hook_pending

\* OnCreate: load_interface, load_capa_results, load_ida_hooks
OnCreate ==
    /\ phase = "new"
    /\ \E env \in Envs : Commit(load_capa_results(load_interface(Self), env), "OnCreate")
    /\ phase' = "open"
    /\ UNCHANGED <<screen_ea, names, hook_meta, hook_pending, files>>

\* OnClose: unload_ida_hooks, ida_reset
OnClose ==
    /\ Ready
    /\ Commit(ida_reset(Self), "OnClose")
    /\ phase' = "closed"
    /\ UNCHANGED <<screen_ea, names, hook_meta, hook_pending, files>>

\* File > Reset view
Reset ==
    /\ Ready
    /\ Commit(reset(Self), "reset")
    /\ UNCHANGED <<phase, screen_ea, names, hook_meta, hook_pending, files>>

\* File > Run analysis
Reload ==
    /\ Ready
    /\ \E env \in IF rule_path = "" THEN Envs ELSE EnvsNoDialog :
          Commit(reload(Self, env), "reload")
    /\ UNCHANGED <<phase, screen_ea, names, hook_meta, hook_pending, files>>

\* File > Change rules directory...
ChangeRulesDir ==
    /\ Ready
    /\ \E dir \in Dirs \cup {""}, yes \in YesNo, env \in EnvsNoDialog :
          \* answers to dialogs that are not shown are fixed
          /\ dir = "" => yes = "no"
          /\ yes = "no" => env.ok
          /\ Commit(change_rules_dir(Self, dir, yes, env), "change_rules_dir")
    /\ UNCHANGED <<phase, screen_ea, names, hook_meta, hook_pending, files>>

\* File > Export results...
ExportJson ==
    /\ Ready
    /\ \E path \in Paths \cup {""}, overwrite \in YesNo :
          LET s == export_json(Self, path, overwrite)
          IN  \* answers to dialogs that are not shown are fixed
              /\ doc = <<>> => path = ""
              /\ (path = "" \/ files[path] = <<>>) => overwrite = "no"
              /\ Commit(s, "export_json")
              /\ files' = IF s.log.wrote = <<>> THEN files
                          ELSE [files EXCEPT ![s.log.wrote[1]] = <<json_dumps(s.doc[1])>>]
    /\ UNCHANGED <<phase, screen_ea, names, hook_meta, hook_pending>>

\* The user clicks the "Limit results to current function" checkbox.
ToggleCheckbox ==
    /\ Ready
    /\ Commit(setChecked(Self, ~checked), "checkbox")
    /\ UNCHANGED <<phase, screen_ea, names, hook_meta, hook_pending, files>>

\* The user sorts the tree by clicking a column header.
SortTree ==
    /\ Ready
    /\ \E by \in HeaderSorts : Commit([Self EXCEPT !.sort = by], "sort")
    /\ UNCHANGED <<phase, screen_ea, names, hook_meta, hook_pending, files>>

\* The host moves the cursor and reports it: screen_ea_changed
ScreenEaChanged ==
    /\ Ready
    /\ \E widget \in WidgetTypes, new_ea \in Addresses \ {screen_ea} :
          /\ screen_ea' = new_ea
          /\ Commit(Read(ida_hook_screen_ea_changed(Self, widget, new_ea, screen_ea), widget),
                    "screen_ea_changed")
    /\ UNCHANGED <<phase, names, hook_meta, hook_pending, files>>

\* MakeName / EditFunction begins: the hook's pre call
RenamePre ==
    /\ Ready
    /\ LET h == ida_hook_rename([meta |-> hook_meta, tree |-> tree, updated |-> <<>>],
                                FALSE, screen_ea, names)
       IN  /\ hook_meta' = h.meta
           /\ Commit([Self EXCEPT !.tree = h.tree, !.log.updated = h.updated], "rename_pre")
    /\ hook_pending' = TRUE
    /\ UNCHANGED <<phase, screen_ea, names, files>>

\* The function at the cursor after the action: renamed or not.
Renamed ==
    LET f == get_func(screen_ea)
    IN  IF f = <<>> THEN {names}
        ELSE { [names EXCEPT ![f[1].start_ea] = n] : n \in NamesOf(f[1].start_ea) }

\* MakeName / EditFunction ends: the host has applied the action (the name may
\* have changed, and the cursor or the function's start may have moved), the
\* hook's post call runs and the metadata cache is dropped.
RenamePost ==
    /\ phase = "open" /\ hook_pending
    /\ \E nm \in Renamed, location \in Addresses :
          LET h == ida_hook_rename([meta |-> hook_meta, tree |-> tree, updated |-> <<>>],
                                   TRUE, location, nm)
          IN  /\ names' = nm
              /\ screen_ea' = location
              /\ Commit([Self EXCEPT !.tree = h.tree, !.log.updated = h.updated], "rename_post")
    /\ hook_meta' = <<>>
    /\ hook_pending' = FALSE
    /\ UNCHANGED <<phase, files>>

Next ==
    \/ OnCreate
    \/ OnClose
    \/ Reset
    \/ Reload
    \/ ChangeRulesDir
    \/ ExportJson
    \/ ToggleCheckbox
    \/ SortTree
    \/ ScreenEaChanged
    \/ RenamePre
    \/ RenamePost

Spec == Init /\ [][Next]_vars

\* ------------------------------------------------------------------ C1
\* C1: the stored document is always the document of the latest analysis
\* that ran to the end (None before the first one), and a handler whose
\* analysis attempt did not reach the engine leaves doc as it was.
C1_DocIsLatestCompleted ==
    [][ /\ doc' = completed'
        /\ (~last'.engine => doc' = doc) ]_vars

\* A reload whose rules failed to load, after an analysis had completed.
C1_Witness ==
    /\ last.op = "reload"
    /\ ~last.engine
    /\ \E p \in Dirs : MsgRulesFailed(p) \in last.msgs
    /\ doc # <<>>
    /\ doc = completed

\* ------------------------------------------------------------------ C2
\* The range of the function at ea as the filter holds it.
FuncRange(ea) == << get_func(ea)[1].start_ea, get_func(ea)[1].end_ea >>

C4_NavigationSetsFilter ==
    [][ ( /\ last'.op = "screen_ea_changed"
          /\ checked
          /\ last'.input = <<BWN_DISASM>>
          /\ get_func(screen_ea') # get_func(screen_ea) )
        => /\ filter' = IF get_func(screen_ea') # <<>>
                        THEN FuncRange(screen_ea') ELSE <<-1, -1>>
           /\ (get_func(screen_ea') = <<>> => Displayed' = <<>>) ]_vars

\* The cursor just entered the function at 3 (its only address) in the
\* disassembly view, with results in the tree.
C4_Witness ==
    /\ last.op = "screen_ea_changed"
    /\ last.input = <<BWN_DISASM>>
    /\ checked
    /\ screen_ea = 3
    /\ filter = FuncRange(3)
    /\ tree # <<>>

\* ------------------------------------------------------------------ C3
\* The three views show exactly document d (None: nothing).
ViewsShow(d) ==
    /\ tree = DocRows(capability_rules(d))
    /\ view_summary = render_capa_doc_summary(<<>>, d)
    /\ view_attack = render_capa_doc_mitre_summary(<<>>, d)

\* C3 as stated: after reload returns, whatever the outcome of the re-run
\* analysis, the tree, the summary table and the ATT&CK table show exactly
\* the stored document.
C3_AsStated == last.reloaded => ViewsShow(doc)

\* What does hold: after a reload whose analysis ran to the end, the views
\* show exactly the stored document.
C3_CompletedReloadShowsDoc == (last.reloaded /\ last.engine) => ViewsShow(doc)

\* ------------------------------------------------------------------ C5
\* C5 as stated: at the post call of a rename action with the screen location
\* a function start at both calls, the data model's function name is updated
\* from the name the pre call saw to the name current at the post call; a
\* call with the screen location not a function start changes neither the
\* metadata cache nor the data model.
C5_AsStated ==
    [][ /\ ( /\ last'.op = "rename_post"
             /\ is_func_start(screen_ea)
             /\ is_func_start(screen_ea') )
           => /\ last'.updated = << names[screen_ea], names'[screen_ea'] >>
              /\ tree' = update_function_name(tree, names[screen_ea], names'[screen_ea'])
        /\ (last'.op = "rename_pre" /\ ~is_func_start(screen_ea))
           => (hook_meta' = hook_meta /\ tree' = tree)
        /\ (last'.op = "rename_post" /\ ~is_func_start(screen_ea'))
           => (last'.updated = <<>> /\ tree' = tree) ]_vars

\* What does hold: the same with "function start" read as "function start at
\* an address other than 0".
Hooked(ea) == ea # 0 /\ is_func_start(ea)

C5_NonZeroStarts ==
    [][ /\ (last'.op = "rename_post" /\ Hooked(screen_ea) /\ Hooked(screen_ea'))
           => /\ last'.updated = << names[screen_ea], names'[screen_ea'] >>
              /\ tree' = update_function_name(tree, names[screen_ea], names'[screen_ea'])
        /\ (last'.op = "rename_pre" /\ ~Hooked(screen_ea))
           => (hook_meta' = hook_meta /\ tree' = tree)
        /\ (last'.op = "rename_post" /\ ~Hooked(screen_ea'))
           => (last'.updated = <<>> /\ tree' = tree) ]_vars

\* ------------------------------------------------------------------ C6
FormFields == << rule_path, doc, checked, filter, sort, tree, view_summary, view_attack >>

\* C6: export_json writes the file only with a document stored, a path chosen
\* and the path either free or its overwriting confirmed, and then writes the
\* document; otherwise the file system is untouched, and without a document
\* the user is told so.  It never changes the form's fields.
C6_ExportWritesOnlyWhenAllowed ==
    [][ last'.op = "export_json" =>
          LET inp == last'.input
              written == last'.wrote # <<>>
          IN  /\ written =>
                    /\ doc # <<>>
                    /\ Len(inp) >= 1 /\ inp[1] # "" /\ last'.wrote = <<inp[1]>>
                    /\ files[inp[1]] = <<>> \/ (Len(inp) = 2 /\ inp[2] = "yes")
                    /\ files' = [files EXCEPT ![inp[1]] = <<json_dumps(doc[1])>>]
              /\ ~written => files' = files
              /\ doc = <<>> => (~written /\ MsgNoResults \in last'.msgs)
              /\ UNCHANGED FormFields ]_vars

\* An export that replaced an existing file after the user confirmed.
C6_Witness ==
    /\ last.op = "export_json"
    /\ last.input = <<"out.json", "yes">>
    /\ last.wrote = <<"out.json">>
    /\ files["out.json"] = <<json_dumps(doc[1])>>

\* ------------------------------------------------------------------ C7
DefaultSort == [column |-> COLUMN_INDEX_RULE_INFORMATION, order |-> "AscendingOrder"]

\* C7: "Reset view" leaves the checkbox unchecked, the filter cleared and the
\* tree sorted ascending on the rule-information column, whatever the state
\* before; doc and rule_path keep their values, the engine does not run and
\* nothing is rendered.
C7_ResetView ==
    [][ last'.op = "reset" =>
          /\ ~checked'
          /\ filter' = <<>>
          /\ sort' = DefaultSort
          /\ UNCHANGED << doc, rule_path, tree, view_summary, view_attack >>
          /\ ~last'.engine /\ ~last'.asked /\ ~last'.reloaded ]_vars

\* A reset of a form that holds results.
C7_Witness ==
    /\ last.op = "reset"
    /\ doc # <<>>
    /\ tree # <<>>
    /\ ~checked
    /\ filter = <<>>
    /\ sort = DefaultSort

\* ------------------------------------------------------------------ C8
\* The handler ran load_capa_results.
Attempted(l) == l.op \in {"OnCreate", "reload"} \/ l.reloaded

\* load_capa_results showed the directory dialog and the user cancelled it.
Cancelled(l) == l.asked /\ l.input = <<"">>

\* The directory load_capa_results took the rules from.
UsedPath(l, before) == IF l.input # <<>> THEN l.input[1] ELSE before

\* C8: an analysis attempt that had a rules directory and did not reach the
\* engine (the rules failed to load) informs the user, resets rule_path to
\* "", leaves doc unchanged and renders nothing (the views are as the caller
\* left them: the tree and the summary empty, the ATT&CK table untouched);
\* and an analysis attempt that starts with rule_path empty shows the
\* directory dialog.
C8_RulesFailure ==
    [][ /\ (Attempted(last') /\ ~Cancelled(last') /\ ~last'.engine) =>
              /\ MsgRulesFailed(UsedPath(last', rule_path)) \in last'.msgs
              /\ rule_path' = ""
              /\ doc' = doc
              /\ tree' = <<>>
              /\ view_summary' = <<>>
              /\ view_attack' = IF last'.op = "OnCreate" THEN <<>> ELSE view_attack
        /\ (last'.op \in {"OnCreate", "reload"} /\ rule_path = "") => last'.asked ]_vars

\* A reload that failed to load the rules, after an analysis had completed.
C8_Witness ==
    /\ last.op = "reload"
    /\ \E p \in Dirs : MsgRulesFailed(p) \in last.msgs
    /\ ~last.engine
    /\ rule_path = ""
    /\ doc # <<>>
    /\ view_attack # <<>>

\* ------------------------------------------------------------------ C9
\* C9: load_capa_results shows the directory dialog exactly when rule_path is
\* empty; a reload with rule_path set runs on that path without the dialog;
\* a set rule_path changes only through change_rules_dir or a rule-loading
\* failure; a cancelled dialog informs the user, runs no analysis and leaves
\* rule_path empty.
C9_AsksOnlyWhenEmpty ==
    [][ /\ last'.asked <=> (last'.op \in {"OnCreate", "reload"} /\ rule_path = "")
        /\ (last'.op = "reload" /\ rule_path # "" /\ last'.engine) =>
              /\ rule_path' = rule_path
              /\ doc'[1].meta.rule_path = rule_path
        /\ (rule_path # "" /\ rule_path' # rule_path) =>
              \/ last'.op = "change_rules_dir"
              \/ MsgRulesFailed(rule_path) \in last'.msgs
        /\ Cancelled(last') =>
              /\ MsgSelectRules \in last'.msgs
              /\ ~last'.engine
              /\ rule_path' = "" ]_vars

\* A reload that reused the stored rule_path and ran to the end.
C9_Witness ==
    /\ last.op = "reload"
    /\ ~last.asked
    /\ last.engine
    /\ rule_path # ""
    /\ doc[1].meta.rule_path = rule_path

\* ----------------------------------------------------------------- C10
\* C10 as stated: a cancelled change_rules_dir changes nothing; with a
\* directory selected rule_path becomes that directory and reload runs if and
\* only if the user answered yes.
C10_AsStated ==
    [][ last'.op = "change_rules_dir" =>
          LET inp == last'.input
          IN  IF inp[1] = "" THEN UNCHANGED FormFields
              ELSE /\ rule_path' = inp[1]
                   /\ last'.reloaded <=> inp[2] = "yes" ]_vars

\* C10 amended: a cancelled change_rules_dir changes nothing; with a
\* directory selected reload runs if and only if the user answered yes, and
\* rule_path becomes that directory unless the reload failed to load the
\* rules from it, which leaves rule_path empty.
C10_ChangeRulesDir ==
    [][ last'.op = "change_rules_dir" =>
          LET inp == last'.input
          IN  IF inp[1] = "" THEN UNCHANGED FormFields /\ ~last'.reloaded
              ELSE /\ last'.reloaded <=> inp[2] = "yes"
                   /\ rule_path' = IF MsgRulesFailed(inp[1]) \in last'.msgs
                                   THEN "" ELSE inp[1]
                   /\ MsgRulesFailed(inp[1]) \in last'.msgs => last'.reloaded ]_vars

\* The user picked a directory and answered yes, and its rules failed to load.
C10_Witness ==
    /\ last.op = "change_rules_dir"
    /\ last.input = <<"rulesB", "yes">>
    /\ MsgRulesFailed("rulesB") \in last.msgs
    /\ rule_path = ""

\* ----------------------------------------------------------------- C11
\* The filter that limits the results to the function at ea.
FilterFor(ea) == IF get_func(ea) # <<>> THEN FuncRange(ea) ELSE <<-1, -1>>

C12_UncheckedMeansNoFilter == ~checked => filter = <<>>

\* The user just unchecked the box (so it was checked, with a filter active,
\* before) on a form that holds results.
C12_Witness ==
    /\ last.op = "checkbox"
    /\ ~checked
    /\ filter = <<>>
    /\ tree # <<>>

\* ----------------------------------------------------------------- C13
\* C13 as stated: with the box checked, after every navigation event (from
\* any widget) the filter is the one of the function containing the current
\* screen location, the sentinel (-1, -1) when it is in no function.
C13_AsStated ==
    (last.op = "screen_ea_changed" /\ checked) => filter = FilterFor(screen_ea)

\* Every filter the form can install.
InstallableFilters == { FilterFor(ea) : ea \in Addresses }

\* C13 amended: with the box checked, a navigation event from the disassembly
\* view whose source and destination resolve to different functions leaves
\* the filter of the function containing the current screen location (the
\* sentinel in no function); every other navigation event leaves the filter
\* as it was, which may be the filter of another function than the current
\* one; and with the box checked the filter is always a function's range or
\* the sentinel.
C13_FilterFollowsCrossings ==
    [][ /\ (last'.op = "screen_ea_changed" /\ checked) =>
              filter' = IF /\ last'.input = <<BWN_DISASM>>
                           /\ get_func(screen_ea') # get_func(screen_ea)
                        THEN FilterFor(screen_ea')
                        ELSE filter
        /\ checked' => filter' \in InstallableFilters ]_vars

\* An event of the disassembly view, inside one function, left a filter that
\* is not the one of the current function: the cursor had entered the function
\* through an event that was ignored.
C13_Witness ==
    /\ last.op = "screen_ea_changed"
    /\ last.input = <<BWN_DISASM>>
    /\ checked
    /\ get_func(screen_ea) # <<>>
    /\ filter # FilterFor(screen_ea)

\* ----------------------------------------------------------------- C14
\* rule_path is the non-empty rules directory document d was computed from.
ComputedFrom(d, path) == path # "" /\ d.meta.rule_path = path

\* C14 as stated: whenever a document is stored, rule_path is the non-empty
\* rules directory the document was computed from.
C14_AsStated == doc # <<>> => ComputedFrom(doc[1], rule_path)

\* C14 amended: a stored document was computed from one of the rules
\* directories, and right after an analysis that ran to the end rule_path is
\* that directory.  The two part only in a step that fails to load the rules
\* (the document stays, rule_path is emptied) or in a change_rules_dir whose
\* re-run the user declined (the document stays, rule_path is the new
\* directory); no other operation makes them differ.
C14_DocAndRulePath ==
    [][ /\ doc' # <<>> => doc'[1].meta.rule_path \in Dirs
        /\ last'.engine => (doc' # <<>> /\ ComputedFrom(doc'[1], rule_path'))
        /\ (C14_AsStated /\ ~C14_AsStated') =>
              /\ doc' = doc
              /\ IF \E path \in Dirs : MsgRulesFailed(path) \in last'.msgs
                 THEN rule_path' = ""
                 ELSE /\ last'.op = "change_rules_dir"
                      /\ last'.input[2] = "no"
                      /\ rule_path' = last'.input[1]
                      /\ rule_path' \in Dirs ]_vars

\* The user picked another rules directory and declined the re-run: the
\* stored document is the one of the previous directory.
C14_Witness ==
    /\ last.op = "change_rules_dir"
    /\ ~last.reloaded
    /\ doc # <<>>
    /\ rule_path \in Dirs
    /\ doc[1].meta.rule_path \in Dirs \ {rule_path}

====
